---- MODULE Spec2Model ----
(***************************************************************************)
(* Model of the cutting-stock backend: the request handler post_solve      *)
(* (src/app/main.py), the Job model (src/app/solver/data/Job.py) and the   *)
(* solver (src/app/solver/solver.py).                                      *)
(*                                                                         *)
(* Encoding.  An item is a record [length, quantity].  Names are left out: *)
(* post_solve never names a stock, and required items are taken without a  *)
(* name, so NS.__hash__ and the pydantic field equality reduce to equality *)
(* of (length, quantity).  A stock's quantity None ("unlimited") is 0,     *)
(* which pydantic's PositiveInt never admits as a real quantity.           *)
(* float('inf') / math.inf is Inf and inf * 0 is NaN.                      *)
(***************************************************************************)
EXTENDS Integers, Sequences, FiniteSets, TLC

\* ---------------------------------------------------------------- bounds
\* lengths, quantities and kerf of a request; a request names at most two
\* stock kinds and two required kinds (Tuples)
MaxLen == 4
MaxQty == 2
MaxCut == 1
MaxUnits == 8
MaxPackStock == 2
MaxPackDemand == 3

\* ------------------------------------------------------ program constants
Inf == -1
NaN == -2
SaturationLimit == 100

NoJob == [cut_width |-> 0, stocks |-> <<>>, required |-> <<>>]
None == [length |-> 0]
Unset == [length |-> -1]

\* ---------------------------------------------------------------- helpers
RECURSIVE SumSeq(_)
SumSeq(s) == IF s = <<>> THEN 0 ELSE Head(s) + SumSeq(Tail(s))

RECURSIVE ProdSeq(_)
ProdSeq(s) == IF s = <<>> THEN 1 ELSE Head(s) * ProdSeq(Tail(s))

RECURSIVE Factorial(_)
Factorial(n) == IF n <= 1 THEN 1 ELSE n * Factorial(n - 1)

Ceil(a, b) == (a + b - 1) \div b

ReverseSeq(s) == [i \in 1..Len(s) |-> s[Len(s) + 1 - i]]

Lengths(s) == [i \in 1..Len(s) |-> s[i].length]

Repeat(x, n) == [i \in 1..n |-> x]

RECURSIVE Concat(_)
Concat(ss) == IF ss = <<>> THEN <<>> ELSE Head(ss) \o Concat(Tail(ss))

\* NS.__lt__
Lt(a, b) == a.length < a.length

\* the order of key=lambda x: x.length
LtByLength(a, b) == a.length < b.length

\* the canonical order of the entries of a layout
LexLess(a, b) ==
    \/ \E k \in 1..Len(a) :
          /\ k <= Len(b)
          /\ a[k] < b[k]
          /\ \A m \in 1..(k - 1) : a[m] = b[m]
    \/ Len(a) < Len(b) /\ \A m \in 1..Len(a) : a[m] = b[m]

EntryLess(a, b) == LexLess(<<a.stock>> \o a.cuts, <<b.stock>> \o b.cuts)

\* a < b as the sort named by `order` compares its items
Less(order, a, b) ==
    CASE order = "lt" -> Lt(a, b)
      [] order = "length" -> LtByLength(a, b)
      [] order = "entry" -> EntryLess(a, b)

\* list.sort: a stable insertion of every element behind the elements it is
\* not "less than".
InsertSorted(s, x, order) ==
    LET hits == {i \in 1..Len(s) : Less(order, x, s[i])}
        k == IF hits = {} THEN Len(s) + 1
             ELSE CHOOSE i \in hits : \A j \in hits : i <= j
    IN  SubSeq(s, 1, k - 1) \o <<x>> \o SubSeq(s, k, Len(s))

SortWith(s, order) ==
    LET f[i \in 0..Len(s)] ==
            IF i = 0 THEN <<>> ELSE InsertSorted(f[i - 1], s[i], order)
    IN  f[Len(s)]

\* sorted(xs, reverse=True): reverse, sort, reverse (keeps equal elements in
\* their original order).
SortedReverse(s, order) == ReverseSeq(SortWith(ReverseSeq(s), order))

\* ------------------------------------------------------------------ Job.py
SumOfRequired(job) ==
    SumSeq([i \in 1..Len(job.required) |->
              (job.required[i].length + job.cut_width) * job.required[i].quantity])

Iterations(job, target) ==
    IF target.quantity # 0 THEN target.quantity
    ELSE Ceil(SumOfRequired(job) * 2, target.length)

Skipped(job, target) ==
    \A i \in 1..Len(job.required) : job.required[i].length > target.length

IterateRequired(job) ==
    LET srt == SortedReverse(job.required, "lt")
    IN  Concat([i \in 1..Len(srt) |-> Repeat(srt[i], srt[i].quantity)])

IterateStocks(job) ==
    LET srt == SortedReverse(job.stocks, "lt")
    IN  Concat([i \in 1..Len(srt) |->
                  IF Skipped(job, srt[i]) THEN <<>>
                  ELSE Repeat([length |-> srt[i].length], Iterations(job, srt[i]))])

NEntries(job) ==
    SumSeq([i \in 1..Len(job.required) |-> job.required[i].quantity])

NCombinationsRequired(job) ==
    LET n_targets == NEntries(job)
    IN  IF n_targets > SaturationLimit THEN Inf
        ELSE Factorial(n_targets)
               \div ProdSeq([i \in 1..Len(job.required) |->
                               Factorial(job.required[i].quantity)])

\* int(factorial(n) / prod(...)): the quotient is truncated; within the bounds
\* below it is far from the precision of a float, so \div gives the same value
NCombinationsStocks(job) ==
    LET n_stocks == Len(IterateStocks(job))
    IN  IF n_stocks > SaturationLimit THEN Inf
        ELSE Factorial(n_stocks)
               \div ProdSeq([i \in 1..Len(job.stocks) |->
                               Factorial(Iterations(job, job.stocks[i]))])

\* float product: inf * 0 is nan
Times(a, b) ==
    IF a = Inf \/ b = Inf THEN (IF a = 0 \/ b = 0 THEN NaN ELSE Inf)
    ELSE a * b

NCombinations(job) == Times(NCombinationsRequired(job), NCombinationsStocks(job))

\* x <= limit for a float x that may be inf or nan
Leq(x, limit) == x # Inf /\ x # NaN /\ x <= limit

\* assert_valid without its comparison of the required and the stock length
AssertValidNoCapacity(job) ==
    IF Len(job.stocks) <= 0 THEN "Job has no stocks"
    ELSE IF Len(job.required) <= 0 THEN "Job has no required sizes"
    ELSE IF \E t \in 1..Len(job.required) :
               \A s \in 1..Len(job.stocks) :
                   job.required[t].length > job.stocks[s].length
         THEN "Job has target sizes longer than the stock"
    ELSE "ok"

\* Job.assert_valid: the message of the ValueError, "ok" when none is raised
AssertValid(job) ==
    IF Len(job.stocks) <= 0 THEN "Job has no stocks"
    ELSE IF Len(job.required) <= 0 THEN "Job has no required sizes"
    ELSE IF \E t \in 1..Len(job.required) :
               \A s \in 1..Len(job.stocks) :
                   job.required[t].length > job.stocks[s].length
         THEN "Job has target sizes longer than the stock"
    ELSE IF SumOfRequired(job) > SumSeq(Lengths(IterateStocks(job)))
         THEN "Job has more targets than the stock available"
    ELSE "ok"

\* ------------------------------------------------- distinct_permutations
\* more_itertools.distinct_permutations(iterable): sorted(iterable), then the
\* next-permutation walk; both compare the items with their own "<".
HasNext(A) == \E i \in 1..(Len(A) - 1) : Lt(A[i], A[i + 1])

NextPermutation(A) ==
    LET size == Len(A)
        i == CHOOSE x \in 1..(size - 1) :
                 /\ Lt(A[x], A[x + 1])
                 /\ \A y \in (x + 1)..(size - 1) : ~Lt(A[y], A[y + 1])
        j == CHOOSE x \in (i + 1)..size :
                 /\ Lt(A[i], A[x])
                 /\ \A y \in (x + 1)..size : ~Lt(A[i], A[y])
        swapped == [A EXCEPT ![i] = A[j], ![j] = A[i]]
    IN  SubSeq(swapped, 1, i) \o ReverseSeq(SubSeq(swapped, i + 1, size))

RECURSIVE PermutationsFrom(_)
PermutationsFrom(A) ==
    IF HasNext(A) THEN <<A>> \o PermutationsFrom(NextPermutation(A)) ELSE <<A>>

DistinctPermutations(iterable) == PermutationsFrom(SortWith(iterable, "lt"))

\* --------------------------------------------------------------- solver.py
\* required = {size: size.quantity for size in sizes}: a dict in insertion
\* order, as a sequence of [key, val] with distinct keys.
Keys(d) == [i \in 1..Len(d) |-> d[i].key]

HasKey(d, k) == \E i \in 1..Len(d) : d[i].key = k

Get(d, k) == d[CHOOSE i \in 1..Len(d) : d[i].key = k].val

Put(d, k, v) ==
    IF HasKey(d, k) THEN [i \in 1..Len(d) |-> IF d[i].key = k THEN [key |-> k, val |-> v] ELSE d[i]]
    ELSE Append(d, [key |-> k, val |-> v])

MakeRequired(sizes) ==
    LET f[i \in 0..Len(sizes)] ==
            IF i = 0 THEN <<>> ELSE Put(f[i - 1], sizes[i], sizes[i].quantity)
    IN  f[Len(sizes)]

AnyPositive(d) == \E i \in 1..Len(d) : d[i].val > 0

AllZero(d) == \A i \in 1..Len(d) : d[i].val = 0

\* available = stocks, left in the order given
AvailableAsGiven(stocks) == stocks

\* available = sorted(stocks, key=lambda x: x.length, reverse=True)
SortAvailable(stocks) == SortedReverse(stocks, "length")

\* the guard of the inner while loop, without the kerf
FitsWithoutKerf(cut_sum, size, stock, cut_width) ==
    cut_sum + size.length <= stock.length

\* the guard of the inner while loop
Fits(cut_sum, size, stock, cut_width) ==
    cut_sum + size.length + cut_width <= stock.length

\* the inner while loop for one size: the cuts it appends
RECURSIVE FillSize(_, _, _, _, _)
FillSize(cut_sum, left, size, stock, cut_width) ==
    IF left > 0 /\ Fits(cut_sum, size, stock, cut_width)
    THEN <<size>> \o FillSize(cut_sum + size.length + cut_width, left - 1,
                              size, stock, cut_width)
    ELSE <<>>

\* one size of "for size in sorted(current_required.keys(), ...)": the cuts
\* so far and their cut_sum, with the cuts the while loop adds
AddCuts(sofar, size, more, cut_width) ==
    [cuts |-> sofar.cuts \o more,
     cut_sum |-> sofar.cut_sum + Len(more) * (size.length + cut_width)]

FillNext(sofar, size, stock, required, cut_width) ==
    AddCuts(sofar, size,
            FillSize(sofar.cut_sum, Get(required, size), size, stock, cut_width),
            cut_width)

FillAll(order, stock, required, cut_width) ==
    LET f[i \in 0..Len(order)] ==
            IF i = 0 THEN [cuts |-> <<>>, cut_sum |-> 0]
            ELSE FillNext(f[i - 1], order[i], stock, required, cut_width)
    IN  f[Len(order)]

\* trimming = stock.length - cut_sum + cut_width
Trimmed(stock, filled, cut_width) ==
    [cuts |-> filled.cuts,
     trimming |-> stock.length - filled.cut_sum + cut_width]

\* the body of "for stock in available": current_cuts and trimming
Simulate(stock, required, cut_width) ==
    Trimmed(stock,
            FillAll(SortedReverse(Keys(required), "length"), stock, required,
                    cut_width),
            cut_width)

\* if current_cuts and trimming < best_trimming: ...
Better(best, stock, sim) ==
    IF sim.cuts # <<>> /\ (best.trimming = Inf \/ sim.trimming < best.trimming)
    THEN [stock |-> stock, cuts |-> sim.cuts, trimming |-> sim.trimming]
    ELSE best

\* one iteration of the outer while loop up to the choice of best_stock
BestOf(avail, required, cut_width) ==
    LET f[i \in 0..Len(avail)] ==
            IF i = 0 THEN [stock |-> None, cuts |-> <<>>, trimming |-> Inf]
            ELSE Better(f[i - 1], avail[i], Simulate(avail[i], required, cut_width))
    IN  f[Len(avail)]

\* required[size] -= 1
DecrementOne(required, size) == Put(required, size, Get(required, size) - 1)

\* for size in best_cuts: required[size] -= 1
Decrement(required, cuts) ==
    LET f[i \in 0..Len(cuts)] ==
            IF i = 0 THEN required ELSE DecrementOne(f[i - 1], cuts[i])
    IN  f[Len(cuts)]

\* ------------------------------------------- app.solver.utils / Result.py
CreateResultEntry(stock, cuts, cut_width) ==
    [stock |-> stock.length,
     cuts |-> Lengths(cuts),
     trimming |-> stock.length
                    - SumSeq([i \in 1..Len(cuts) |-> cuts[i].length + cut_width])
                    + cut_width]

SortEntries(result) == SortWith(result, "entry")

TotalTrimming(layout) ==
    SumSeq([i \in 1..Len(layout) |-> layout[i].trimming])

Settings ==
    { [bruteforce_max_combinations |-> 1, solver_n_max |-> 1, gapfill_max |-> 2],
      [bruteforce_max_combinations |-> 6, solver_n_max |-> 2, gapfill_max |-> 3] }

\* the selection with its first comparison turned around
SelectWorse(minimal, best, candidate) ==
    LET trimmings == TotalTrimming(candidate)
    IN  IF minimal # Inf /\ trimmings > minimal
        THEN [minimal_trimmings |-> trimmings, best_results |-> {SortEntries(candidate)}]
        ELSE IF trimmings = minimal
        THEN [minimal_trimmings |-> minimal,
              best_results |-> best \cup {SortEntries(candidate)}]
        ELSE [minimal_trimmings |-> minimal, best_results |-> best]

\* lines 64-68 of _solve_bruteforce: the minimal total trimming and the
\* layouts that reach it
Select(minimal, best, candidate) ==
    LET trimmings == TotalTrimming(candidate)
    IN  IF minimal = Inf \/ trimmings < minimal
        THEN [minimal_trimmings |-> trimmings, best_results |-> {SortEntries(candidate)}]
        ELSE IF trimmings = minimal
        THEN [minimal_trimmings |-> minimal,
              best_results |-> best \cup {SortEntries(candidate)}]
        ELSE [minimal_trimmings |-> minimal, best_results |-> best]

\* the choice with "<" for the first "<="
SelectStrategyStrict(j, cfg) ==
    IF NCombinations(j) # NaN /\ NCombinations(j) # Inf
       /\ NCombinations(j) < cfg.bruteforce_max_combinations THEN "bruteforce"
    ELSE IF NEntries(j) <= cfg.solver_n_max THEN "FFD"
    ELSE IF NEntries(j) <= cfg.gapfill_max THEN "gapfill"
    ELSE "overflow"

\* the strategy chosen by solve(), "overflow" for OverflowError
SelectStrategy(j, cfg) ==
    IF Leq(NCombinations(j), cfg.bruteforce_max_combinations) THEN "bruteforce"
    ELSE IF NEntries(j) <= cfg.solver_n_max THEN "FFD"
    ELSE IF NEntries(j) <= cfg.gapfill_max THEN "gapfill"
    ELSE "overflow"

\* ------------------------------------------------------------------ inputs
Tuples(S) == {<<>>} \cup {<<a>> : a \in S} \cup {<<a, b>> : a \in S, b \in S}

StockItems == [length : 1..MaxLen, quantity : 0..MaxQty]

RawRequired == [length : 1..MaxLen, quantity : 0..MaxQty]

\* every stock unit of the job, skipped kinds included
TotalUnits(j) ==
    SumSeq([i \in 1..Len(j.stocks) |-> Iterations(j, j.stocks[i])])

\* the loop of post_solve that keeps the required items of positive quantity
PositiveItems(raw) == SelectSeq(raw, LAMBDA item : item.quantity > 0)

VARIABLES
    pc,                  \* position of the request in post_solve / solve
    settings,            \* solverSettings
    request,             \* the arguments of Job(...)
    job,                 \* the validated Job, NoJob when there is none
    error,               \* the message of the exception raised, "" if none
    solver_type,
    stock_orderings, required_orderings, si, ri,
    available, required, result,             \* locals of _group_into_lengths
    best_stock, best_cuts, best_trimming,
    minimal_trimmings, best_results,
    evaluated,           \* history: the layouts the packer has returned
    layout,              \* the layout of the Result
    ref_available, ref_required, ref_result  \* a second call of the packer

jobVars == <<settings, request, job, error, solver_type>>
searchVars == <<stock_orderings, required_orderings, si, ri,
                minimal_trimmings, best_results, evaluated, layout>>
packVars == <<available, required, result, best_stock, best_cuts, best_trimming>>
refVars == <<ref_available, ref_required, ref_result>>
vars == <<pc, jobVars, searchVars, packVars, refVars>>

Idle ==
    /\ request = NoJob /\ job = NoJob /\ error = "" /\ solver_type = ""
    /\ stock_orderings = <<>> /\ required_orderings = <<>>
    /\ si = 1 /\ ri = 1
    /\ available = <<>> /\ required = <<>> /\ result = <<>>
    /\ best_stock = Unset /\ best_cuts = <<>> /\ best_trimming = Inf
    /\ minimal_trimmings = Inf /\ best_results = {} /\ evaluated = <<>>
    /\ layout = <<>>
    /\ ref_available = <<>> /\ ref_required = <<>> /\ ref_result = <<>>

Init ==
    /\ pc = "idle"
    /\ settings \in Settings
    /\ Idle

\* post_solve up to and including Job(...), whose validator is assert_valid.
\* Requests whose stock expands to more than MaxUnits units are not explored.
PostSolve ==
    /\ pc = "idle"
    /\ \E stocks \in Tuples(StockItems), raw \in Tuples(RawRequired),
          cut_width \in 0..MaxCut :
          LET candidate == [cut_width |-> cut_width, stocks |-> stocks,
                            required |-> PositiveItems(raw)]
              verdict == AssertValid(candidate)
          IN  /\ TotalUnits(candidate) <= MaxUnits
              /\ request' = candidate
              /\ IF verdict = "ok"
                 THEN job' = candidate /\ error' = "" /\ pc' = "validated"
                 ELSE job' = NoJob /\ error' = verdict /\ pc' = "invalid"
    /\ UNCHANGED <<settings, solver_type, searchVars, packVars, refVars>>

\* solve(): the choice of the strategy and the start of its search
Solve ==
    /\ pc = "validated"
    /\ LET strategy == SelectStrategy(job, settings)
       IN  IF strategy = "overflow"
           THEN /\ pc' = "too_large"
                /\ error' = "Input too large"
                /\ UNCHANGED <<solver_type, searchVars>>
           ELSE /\ pc' = "search"
                /\ solver_type' = strategy
                /\ stock_orderings' = DistinctPermutations(IterateStocks(job))
                /\ required_orderings' = DistinctPermutations(IterateRequired(job))
                /\ si' = 1 /\ ri' = 1
                /\ minimal_trimmings' = Inf /\ best_results' = {}
                /\ UNCHANGED <<error, evaluated, layout>>
    /\ UNCHANGED <<settings, request, job, packVars, refVars>>

\* the next pair of orderings and the entry of _group_into_lengths
SearchNext ==
    /\ pc = "search"
    /\ si <= Len(stock_orderings)
    /\ available' = SortAvailable(stock_orderings[si])
    /\ required' = MakeRequired(required_orderings[ri])
    /\ result' = <<>>
    /\ best_stock' = Unset /\ best_cuts' = <<>> /\ best_trimming' = Inf
    /\ pc' = "pack"
    /\ UNCHANGED <<jobVars, searchVars, refVars>>

\* "if best_stock and best_cuts:" and the body it guards
Commit(best, cut_width) ==
    /\ best_stock' = best.stock
    /\ best_cuts' = best.cuts
    /\ best_trimming' = best.trimming
    /\ IF best.stock # None /\ best.cuts # <<>>
       THEN /\ result' = Append(result,
                                CreateResultEntry(best.stock, best.cuts, cut_width))
            /\ required' = Decrement(required, best.cuts)
       ELSE UNCHANGED <<result, required>>

\* one iteration of "while any(quantity > 0 ...)"
PackPass ==
    /\ pc = "pack"
    /\ AnyPositive(required)
    /\ Commit(BestOf(available, required, job.cut_width), job.cut_width)
    /\ UNCHANGED <<pc, available, jobVars, searchVars, refVars>>

\* the return of _group_into_lengths and the rest of the loop body
PackReturn ==
    /\ pc = "pack"
    /\ ~AnyPositive(required)
    /\ IF AllZero(required)
       THEN LET sel == Select(minimal_trimmings, best_results, result)
            IN  /\ minimal_trimmings' = sel.minimal_trimmings
                /\ best_results' = sel.best_results
                /\ evaluated' = Append(evaluated, result)
       ELSE UNCHANGED <<minimal_trimmings, best_results, evaluated>>
    /\ IF ri < Len(required_orderings)
       THEN ri' = ri + 1 /\ si' = si
       ELSE ri' = 1 /\ si' = si + 1
    /\ pc' = "search"
    /\ UNCHANGED <<stock_orderings, required_orderings, layout,
                   jobVars, packVars, refVars>>

\* the end of the search: the assertion and find_best_solution
SearchDone ==
    /\ pc = "search"
    /\ si > Len(stock_orderings)
    /\ IF best_results = {}
       THEN /\ pc' = "assert_failed"
            /\ error' = "No valid solution found"
            /\ UNCHANGED layout
       ELSE /\ pc' = "done"
            /\ layout' \in best_results
            /\ UNCHANGED error
    /\ UNCHANGED <<settings, request, job, solver_type, stock_orderings,
                   required_orderings, si, ri, minimal_trimmings, best_results,
                   evaluated, packVars, refVars>>

Next == PostSolve \/ Solve \/ SearchNext \/ PackPass \/ PackReturn \/ SearchDone

Spec == Init /\ [][Next]_vars

\* ---------------------------------------------- the packer on two orderings
\* _group_into_lengths called on any ordering of the expanded stock and demand
\* of a valid job, beside the call on the orderings the job itself yields.
ReqItems == [length : 1..MaxLen, quantity : 1..MaxQty]

ValidJobs ==
    {j \in [cut_width : 0..MaxCut, stocks : Tuples(StockItems),
            required : Tuples(ReqItems)] :
        /\ TotalUnits(j) <= MaxPackStock
        /\ NEntries(j) <= MaxPackDemand
        /\ AssertValid(j) = "ok"}

Orderings(seq) ==
    LET n == Len(seq)
    IN  {[i \in 1..n |-> seq[f[i]]] :
            f \in {g \in [1..n -> 1..n] : \A a, b \in 1..n : a # b => g[a] # g[b]}}

InitPack ==
    /\ pc = "call"
    /\ settings \in {s \in Settings : s.solver_n_max = 1}
    /\ job \in ValidJobs
    /\ request = job
    /\ error = "" /\ solver_type = ""
    /\ stock_orderings \in {<<o>> : o \in Orderings(IterateStocks(job))}
    /\ required_orderings \in {<<o>> : o \in Orderings(IterateRequired(job))}
    /\ si = 1 /\ ri = 1
    /\ available = <<>> /\ required = <<>> /\ result = <<>>
    /\ best_stock = Unset /\ best_cuts = <<>> /\ best_trimming = Inf
    /\ minimal_trimmings = Inf /\ best_results = {} /\ evaluated = <<>>
    /\ layout = <<>>
    /\ ref_available = <<>> /\ ref_required = <<>> /\ ref_result = <<>>

\* lines 75-77 of both calls
PairCall ==
    /\ pc = "call"
    /\ available' = SortAvailable(stock_orderings[si])
    /\ required' = MakeRequired(required_orderings[ri])
    /\ ref_available' = SortAvailable(IterateStocks(job))
    /\ ref_required' = MakeRequired(IterateRequired(job))
    /\ result' = <<>> /\ ref_result' = <<>>
    /\ best_stock' = Unset /\ best_cuts' = <<>> /\ best_trimming' = Inf
    /\ pc' = "pack"
    /\ UNCHANGED <<jobVars, searchVars>>

RefCommit(best, cut_width) ==
    IF best.stock # None /\ best.cuts # <<>>
    THEN /\ ref_result' = Append(ref_result,
                                 CreateResultEntry(best.stock, best.cuts, cut_width))
         /\ ref_required' = Decrement(ref_required, best.cuts)
    ELSE UNCHANGED <<ref_result, ref_required>>

\* one iteration of the while loop in each call that is still in its loop
PairPass ==
    /\ pc = "pack"
    /\ AnyPositive(required) \/ AnyPositive(ref_required)
    /\ IF AnyPositive(required)
       THEN Commit(BestOf(available, required, job.cut_width), job.cut_width)
       ELSE UNCHANGED <<result, required, best_stock, best_cuts, best_trimming>>
    /\ IF AnyPositive(ref_required)
       THEN RefCommit(BestOf(ref_available, ref_required, job.cut_width),
                      job.cut_width)
       ELSE UNCHANGED <<ref_result, ref_required>>
    /\ UNCHANGED <<pc, available, ref_available, jobVars, searchVars>>

PairReturn ==
    /\ pc = "pack"
    /\ ~AnyPositive(required) /\ ~AnyPositive(ref_required)
    /\ pc' = "returned"
    /\ UNCHANGED <<jobVars, searchVars, packVars, refVars>>

NextPack == PairCall \/ PairPass \/ PairReturn

PackSpec == InitPack /\ [][NextPack]_vars

\* ------------------------------------------------------------------ claims
Count(seq, x) == Cardinality({i \in 1..Len(seq) : seq[i] = x})

AllCuts(entries) == Concat([i \in 1..Len(entries) |-> entries[i].cuts])

DemandOf(j, l) ==
    SumSeq([i \in 1..Len(j.required) |->
              IF j.required[i].length = l THEN j.required[i].quantity ELSE 0])

NonIncreasing(seq) == \A i \in 1..(Len(seq) - 1) : seq[i] >= seq[i + 1]

\* C1: the cut lengths of the layout of a Result are, as a multiset, each
\* required item's length repeated quantity times.
C1_Completeness ==
    pc = "done" =>
        \A l \in 1..MaxLen : Count(AllCuts(layout), l) = DemandOf(job, l)

\* C2: a layout the packer returns cuts from each stock kind no more entries
\* than the expanded stock sequence has units of that kind.
C2_StockUsedOnce ==
    \A k \in 1..Len(evaluated) : \A l \in 1..MaxLen :
        Cardinality({i \in 1..Len(evaluated[k]) : evaluated[k][i].stock = l})
            <= Count(Lengths(IterateStocks(job)), l)

\* C3: the packer is never back at the head of its loop after a pass that
\* placed no cut while demand remains: it has stopped and returned.
C3_PackerStops ==
    ~(pc = "pack" /\ best_stock = None /\ AnyPositive(required))

\* C4: the cuts committed to a stock unit fit, kerfs included, and the
\* trimming computed for it is stock.length - sum(cut + kerf) + kerf >= 0.
C4_Conservation ==
    (pc = "pack" /\ best_cuts # <<>>) =>
        LET used == SumSeq([i \in 1..Len(best_cuts) |->
                              best_cuts[i].length + job.cut_width])
        IN  /\ used <= best_stock.length
            /\ best_trimming = best_stock.length - used + job.cut_width
            /\ best_trimming >= 0
            /\ result # <<>>
            /\ result[Len(result)].stock = best_stock.length
            /\ result[Len(result)].cuts = Lengths(best_cuts)

C4_Witness == pc = "pack" /\ Len(best_cuts) >= 2 /\ job.cut_width > 0

Capacity(r) ==
    SumSeq([i \in 1..Len(r.stocks) |->
              r.stocks[i].length *
                (IF r.stocks[i].quantity > 0 THEN r.stocks[i].quantity
                 ELSE Ceil(2 * SumOfRequired(r), r.stocks[i].length))])

OverLong(r) ==
    \E t \in 1..Len(r.required) : \A k \in 1..Len(r.stocks) :
        r.required[t].length > r.stocks[k].length

Infeasible(r) ==
    \/ r.stocks = <<>>
    \/ r.required = <<>>
    \/ OverLong(r)
    \/ SumOfRequired(r) > Capacity(r)

\* C5: constructing a Job with no stocks, no required items, an over-long
\* required item or too little stock raises and leaves no Job, so the solver
\* only ever sees jobs that meet all four conditions.
C5_FeasibilityGuard ==
    /\ (pc # "idle" /\ Infeasible(request)) =>
           (pc = "invalid" /\ job = NoJob /\ error # "")
    /\ pc \notin {"idle", "invalid"} => (job = request /\ ~Infeasible(job))

C5_Witness ==
    /\ pc = "invalid"
    /\ request.stocks # <<>> /\ request.required # <<>> /\ ~OverLong(request)
    /\ SumOfRequired(request) > Capacity(request)

\* C6: solve tags the result bruteforce, FFD or gapfill by the three
\* thresholds in that order, and otherwise raises before any search.
C6_StrategyDispatch ==
    pc \notin {"idle", "invalid", "validated"} =>
        LET n == NCombinations(job)
            e == NEntries(job)
            brute == n # Inf /\ n # NaN /\ n <= settings.bruteforce_max_combinations
            ffd == ~brute /\ e <= settings.solver_n_max
            gap == ~brute /\ ~ffd /\ e <= settings.gapfill_max
        IN  /\ solver_type = "bruteforce" <=> brute
            /\ solver_type = "FFD" <=> ffd
            /\ solver_type = "gapfill" <=> gap
            /\ pc = "too_large" <=> ~(brute \/ ffd \/ gap)
            /\ pc = "too_large" =>
                  /\ solver_type = "" /\ error = "Input too large"
                  /\ stock_orderings = <<>> /\ required_orderings = <<>>
                  /\ result = <<>> /\ evaluated = <<>> /\ layout = <<>>

C6_Witness == pc = "done" /\ solver_type = "gapfill"

\* C7: the expanded required and stock sequences of a valid job are each
\* non-increasing in length.
C7_Descending ==
    pc = "validated" =>
        /\ NonIncreasing(Lengths(IterateRequired(job)))
        /\ NonIncreasing(Lengths(IterateStocks(job)))

\* C8: n_combinations_stocks is n! over the product of the factorials of the
\* unit counts of the stock kinds iterate_stocks yields, n being the number of
\* units it yields (at most 100).
C8_StockOrderings ==
    (pc = "validated" /\ Len(IterateStocks(job)) <= SaturationLimit) =>
        NCombinationsStocks(job) =
            Factorial(Len(IterateStocks(job))) \div
              ProdSeq([i \in 1..Len(job.stocks) |->
                         IF Skipped(job, job.stocks[i]) THEN 1
                         ELSE Factorial(Iterations(job, job.stocks[i]))])

MinOf(S) == CHOOSE x \in S : \A y \in S : x <= y

C10_OrderInsensitive ==
    pc \in {"pack", "returned"} =>
        /\ result = ref_result
        /\ TotalTrimming(result) = TotalTrimming(ref_result)

C10_Witness ==
    /\ pc = "returned"
    /\ Lengths(stock_orderings[1]) # Lengths(IterateStocks(job))
    /\ Lengths(required_orderings[1]) # Lengths(IterateRequired(job))
    /\ Len(result) >= 2

====
